---- MODULE Spec2Model ----
(***************************************************************************)
(* Model of html/js/setup_wifi.js: the WiFi setup page of iot-platform.    *)
(* The page polls <api_base>wifi/scan, merges the answer into the global   *)
(* object setup_wifi_ssids, renders one table row per property of that     *)
(* object and re-arms a 5 s timer from inside the success callback.        *)
(*                                                                         *)
(* The browser is part of the model as far as the file relies on it:       *)
(*   - $.getJSON: a request is in flight until it is answered (success     *)
(*     callback runs) or fails (no callback is registered for failure);    *)
(*   - setTimeout / clearTimeout: a table of pending timers with fresh     *)
(*     ids; clearTimeout removes the timer with the given id, if any;      *)
(*   - a JS object enumerates its (non-index) string keys in insertion     *)
(*     order, and assigning to an existing key keeps its position.         *)
(* Every callback runs to completion (single-threaded event loop), so each *)
(* handler is one atomic action.                                           *)
(***************************************************************************)
EXTENDS Integers, Sequences, FiniteSets, TLC

\* ------------------------------------------------------------ bounds
\* Total number of scan requests the model lets the page dispatch.
MaxDispatch == 3
\* Longest "access-points" array of one response.
MaxAps == 2

\* ------------------------------------------------------------ data
SSIDS == {"A", "B"}

\* Elements of data["access-points"]: the records of the scan scenario
\* (network A seen twice with every other field different, network B once).
AccessPoint ==
    { [ssid |-> "A", auth |-> "WPA2", quality |-> 80],
      [ssid |-> "A", auth |-> "Open", quality |-> 95],
      [ssid |-> "B", auth |-> "Open", quality |-> 40] }

RECURSIVE SeqsUpTo(_, _)
SeqsUpTo(S, n) ==
    IF n = 0 THEN {<<>>}
    ELSE LET shorter == SeqsUpTo(S, n - 1)
         IN  shorter \cup {Append(q, x) : q \in {r \in shorter : Len(r) = n - 1}, x \in S}

\* The "access-points" arrays a successful response can carry (a body
\* without the field gives aps = undefined, over which for-in iterates
\* nothing, like the empty array).
Responses == SeqsUpTo(AccessPoint, MaxAps)

\* Value of setup_wifi_scan_timer before the first setTimeout (undefined).
Undefined == 0

\* Content of "#setup_wifi_ssids tbody".
Untouched == [kind |-> "untouched", rows |-> <<>>]
Scanning  == [kind |-> "scanning",  rows |-> <<>>]

NoAp == [ssid |-> "", auth |-> "", quality |-> 0]

VARIABLES
    setup_wifi_scan_timer,  \* the global timer handle (line 12)
    setup_wifi_ssids,       \* the global table, as <<[key, ap]>> in enumeration order (line 13)
    tbody,                  \* content of #setup_wifi_ssids tbody
    inflight,               \* getJSON requests dispatched and not yet answered or failed
    pending,                \* ids of timers scheduled by setTimeout, not yet fired or cleared
    nextTimerId,            \* next id setTimeout hands out
    \* history (not read by the program)
    dispatched,             \* number of scan requests dispatched so far
    processed,              \* number of responses merged and rendered so far
    activations,            \* number of on_activate calls so far
    view,                   \* "none" before the first lifecycle call, then "active" / "inactive"
    lastOp,                 \* the handler that ran last
    prevOp,                 \* the handler that ran before it
    lastMerge,              \* what the most recent response did to the table
    seen,                   \* SSIDs that occurred in any processed response
    latest                  \* per SSID, the record of its most recent occurrence

prog == <<setup_wifi_scan_timer, setup_wifi_ssids, tbody, inflight, pending, nextTimerId>>
hist == <<dispatched, processed, activations, view, lastOp, prevOp, lastMerge, seen, latest>>
vars == <<prog, hist>>

\* ------------------------------------------------------------ the table
Keys(tbl) == {tbl[i].key : i \in DOMAIN tbl}

\* tbl[k], for k a key of tbl.
Lookup(tbl, k) == tbl[CHOOSE i \in DOMAIN tbl : tbl[i].key = k].ap

\* A variant that never overwrites an entry already present.
UpsertKeepOld(tbl, ap) ==
    IF ap.ssid \in Keys(tbl) THEN tbl
    ELSE Append(tbl, [key |-> ap.ssid, ap |-> ap])

\* An upsert that files the record under its auth type.
UpsertKeyAuth(tbl, ap) ==
    IF ap.auth \in Keys(tbl)
    THEN [i \in DOMAIN tbl |->
            IF tbl[i].key = ap.auth THEN [key |-> ap.auth, ap |-> ap] ELSE tbl[i]]
    ELSE Append(tbl, [key |-> ap.auth, ap |-> ap])

\* setup_wifi_ssids[ap["ssid"]] = ap
Upsert(tbl, ap) ==
    IF ap.ssid \in Keys(tbl)
    THEN [i \in DOMAIN tbl |->
            IF tbl[i].key = ap.ssid THEN [key |-> ap.ssid, ap |-> ap] ELSE tbl[i]]
    ELSE Append(tbl, [key |-> ap.ssid, ap |-> ap])

\* for (var i in aps) { var ap = aps[i]; setup_wifi_ssids[ap["ssid"]] = ap }
RECURSIVE Merge(_, _)
Merge(tbl, aps) ==
    IF aps = <<>> THEN tbl
    ELSE Merge(Upsert(tbl, Head(aps)), Tail(aps))

\* ------------------------------------------------------------ rendering
\* A row whose button carries the auth type instead of the SSID.
RowButtonAuth(ap) ==
    [th |-> ap.ssid, auth |-> ap.auth, quality |-> ToString(ap.quality),
     button |-> ap.auth]

\* .format substitutes its arguments for {0}, {1}, {2} as text:
\* '<tr><th scope="row">{0}</th><td>{1}</td><td>{2}</td>'.format(ssid, auth, quality)
\*   + '<td ...><button ... ssid="{0}">Connect</button></td></tr>'.format(ssid)
Row(ap) ==
    [th |-> ap.ssid, auth |-> ap.auth, quality |-> ToString(ap.quality),
     button |-> ap.ssid]

\* for (var i in setup_wifi_ssids) { res += row of setup_wifi_ssids[i] }
Render(tbl) == [kind |-> "rows", rows |-> [i \in DOMAIN tbl |-> Row(tbl[i].ap)]]

\* ------------------------------------------------------------ history helpers
Occurs(aps, s) == \E i \in DOMAIN aps : aps[i].ssid = s

LastOccurrence(aps, s) ==
    aps[CHOOSE i \in DOMAIN aps :
            /\ aps[i].ssid = s
            /\ \A j \in DOMAIN aps : j > i => aps[j].ssid # s]

\* What a merge did: replaced the record of a key already present, only
\* added keys, or left the table as it was.
MergeEffect(old, new) ==
    IF \E k \in Keys(old) : Lookup(new, k) # Lookup(old, k) THEN "overwrote"
    ELSE IF Keys(new) # Keys(old) THEN "added"
    ELSE "same"

\* ------------------------------------------------------------ Init
Init ==
    /\ setup_wifi_scan_timer = Undefined
    /\ setup_wifi_ssids = <<>>
    /\ tbody = Untouched
    /\ inflight = 0
    /\ pending = {}
    /\ nextTimerId = 1
    /\ dispatched = 0
    /\ processed = 0
    /\ activations = 0
    /\ view = "none"
    /\ lastOp = "load"
    /\ prevOp = "load"
    /\ lastMerge = "none"
    /\ seen = {}
    /\ latest = [s \in SSIDS |-> NoAp]

\* ------------------------------------------------------------ actions
\* setup_wifi_scan (lines 15-38): $.getJSON dispatches the request and
\* returns; the callback runs later, as ScanDone.
setup_wifi_scan ==
    /\ inflight' = inflight + 1
    /\ dispatched' = dispatched + 1

\* setup_wifi_on_activate, with a scan that waits for a timer instead of
\* dispatching at once.
ActivateDelayed ==
    /\ dispatched < MaxDispatch
    /\ tbody' = Scanning
    /\ pending' = pending \cup {nextTimerId}
    /\ setup_wifi_scan_timer' = nextTimerId
    /\ nextTimerId' = nextTimerId + 1
    /\ activations' = activations + 1
    /\ view' = "active"
    /\ lastOp' = "activate"
    /\ prevOp' = lastOp
    /\ UNCHANGED <<setup_wifi_ssids, inflight, dispatched, processed, seen, latest, lastMerge>>

\* setup_wifi_on_activate that also empties the table.
ActivateClears ==
    /\ dispatched < MaxDispatch
    /\ tbody' = Scanning
    /\ setup_wifi_ssids' = <<>>
    /\ inflight' = inflight + 1
    /\ dispatched' = dispatched + 1
    /\ activations' = activations + 1
    /\ view' = "active"
    /\ lastOp' = "activate"
    /\ prevOp' = lastOp
    /\ UNCHANGED <<setup_wifi_scan_timer, pending, nextTimerId, processed, seen, latest, lastMerge>>

\* setup_wifi_on_activate: placeholder row, then setup_wifi_scan() which
\* dispatches the request and returns.
setup_wifi_on_activate ==
    /\ dispatched < MaxDispatch
    /\ tbody' = Scanning
    /\ setup_wifi_scan
    /\ activations' = activations + 1
    /\ view' = "active"
    /\ lastOp' = "activate"
    /\ prevOp' = lastOp
    /\ UNCHANGED <<setup_wifi_scan_timer, setup_wifi_ssids, pending, nextTimerId,
                   processed, seen, latest, lastMerge>>

\* setup_wifi_on_deactivate that also aborts the requests in flight.
DeactivateAborts ==
    /\ pending' = pending \ {setup_wifi_scan_timer}
    /\ inflight' = 0
    /\ view' = "inactive"
    /\ lastOp' = "deactivate"
    /\ prevOp' = lastOp
    /\ UNCHANGED <<setup_wifi_scan_timer, setup_wifi_ssids, tbody, nextTimerId,
                   dispatched, processed, activations, seen, latest, lastMerge>>

\* setup_wifi_on_deactivate: clearTimeout(setup_wifi_scan_timer).
setup_wifi_on_deactivate ==
    /\ pending' = pending \ {setup_wifi_scan_timer}
    /\ view' = "inactive"
    /\ lastOp' = "deactivate"
    /\ prevOp' = lastOp
    /\ UNCHANGED <<setup_wifi_scan_timer, setup_wifi_ssids, tbody, inflight, nextTimerId,
                   dispatched, processed, activations, seen, latest, lastMerge>>

\* The success callback rendering the response instead of the table.
ResponseRendersAps(aps) ==
    /\ inflight > 0
    /\ inflight' = inflight - 1
    /\ setup_wifi_ssids' = Merge(setup_wifi_ssids, aps)
    /\ tbody' = [kind |-> "rows", rows |-> [i \in DOMAIN aps |-> Row(aps[i])]]
    /\ setup_wifi_scan_timer' = nextTimerId
    /\ pending' = pending \cup {nextTimerId}
    /\ nextTimerId' = nextTimerId + 1
    /\ processed' = processed + 1
    /\ lastOp' = "response"
    /\ prevOp' = lastOp
    /\ seen' = seen \cup {aps[i].ssid : i \in DOMAIN aps}
    /\ latest' = [s \in SSIDS |->
                    IF Occurs(aps, s) THEN LastOccurrence(aps, s) ELSE latest[s]]
    /\ lastMerge' = MergeEffect(setup_wifi_ssids, setup_wifi_ssids')
    /\ UNCHANGED <<dispatched, activations, view>>

\* The success callback guarded by the view's state: a response that lands
\* after deactivate() is dropped.
ScanDoneGuarded(aps) ==
    /\ inflight > 0
    /\ inflight' = inflight - 1
    /\ lastOp' = "response"
    /\ prevOp' = lastOp
    /\ IF view = "inactive"
       THEN UNCHANGED <<setup_wifi_scan_timer, setup_wifi_ssids, tbody, pending, nextTimerId,
                        processed, seen, latest, lastMerge>>
       ELSE /\ setup_wifi_ssids' = Merge(setup_wifi_ssids, aps)
            /\ tbody' = Render(setup_wifi_ssids')
            /\ setup_wifi_scan_timer' = nextTimerId
            /\ pending' = pending \cup {nextTimerId}
            /\ nextTimerId' = nextTimerId + 1
            /\ processed' = processed + 1
            /\ seen' = seen \cup {aps[i].ssid : i \in DOMAIN aps}
            /\ latest' = [s \in SSIDS |->
                            IF Occurs(aps, s) THEN LastOccurrence(aps, s) ELSE latest[s]]
            /\ lastMerge' = MergeEffect(setup_wifi_ssids, setup_wifi_ssids')
    /\ UNCHANGED <<dispatched, activations, view>>

\* The success callback without the re-arming setTimeout of line 36.
ScanDoneNoRearm(aps) ==
    /\ inflight > 0
    /\ inflight' = inflight - 1
    /\ setup_wifi_ssids' = Merge(setup_wifi_ssids, aps)
    /\ tbody' = Render(setup_wifi_ssids')
    /\ processed' = processed + 1
    /\ lastOp' = "response"
    /\ prevOp' = lastOp
    /\ seen' = seen \cup {aps[i].ssid : i \in DOMAIN aps}
    /\ latest' = [s \in SSIDS |->
                    IF Occurs(aps, s) THEN LastOccurrence(aps, s) ELSE latest[s]]
    /\ lastMerge' = MergeEffect(setup_wifi_ssids, setup_wifi_ssids')
    /\ UNCHANGED <<setup_wifi_scan_timer, pending, nextTimerId, dispatched, activations, view>>

\* The success callback of $.getJSON (lines 18-37): merge, render, re-arm.
ScanDone(aps) ==
    /\ inflight > 0
    /\ inflight' = inflight - 1
    /\ setup_wifi_ssids' = Merge(setup_wifi_ssids, aps)
    /\ tbody' = Render(setup_wifi_ssids')
    /\ setup_wifi_scan_timer' = nextTimerId
    /\ pending' = pending \cup {nextTimerId}
    /\ nextTimerId' = nextTimerId + 1
    /\ processed' = processed + 1
    /\ lastOp' = "response"
    /\ prevOp' = lastOp
    /\ seen' = seen \cup {aps[i].ssid : i \in DOMAIN aps}
    /\ latest' = [s \in SSIDS |->
                    IF Occurs(aps, s) THEN LastOccurrence(aps, s) ELSE latest[s]]
    /\ lastMerge' = MergeEffect(setup_wifi_ssids, setup_wifi_ssids')
    /\ UNCHANGED <<dispatched, activations, view>>

\* A failure branch that re-arms the poll timer.
ScanFailedRetries ==
    /\ inflight > 0
    /\ inflight' = inflight - 1
    /\ setup_wifi_scan_timer' = nextTimerId
    /\ pending' = pending \cup {nextTimerId}
    /\ nextTimerId' = nextTimerId + 1
    /\ lastOp' = "fail"
    /\ prevOp' = lastOp
    /\ UNCHANGED <<setup_wifi_ssids, tbody,
                   dispatched, processed, activations, view, seen, latest, lastMerge>>

\* A failure branch that empties the table.
ScanFailedResets ==
    /\ inflight > 0
    /\ inflight' = inflight - 1
    /\ setup_wifi_ssids' = <<>>
    /\ lastOp' = "fail"
    /\ prevOp' = lastOp
    /\ UNCHANGED <<setup_wifi_scan_timer, tbody, pending, nextTimerId,
                   dispatched, processed, activations, view, seen, latest, lastMerge>>

\* The request fails: $.getJSON was given no failure callback, nothing runs.
ScanFailed ==
    /\ inflight > 0
    /\ inflight' = inflight - 1
    /\ lastOp' = "fail"
    /\ prevOp' = lastOp
    /\ UNCHANGED <<setup_wifi_scan_timer, setup_wifi_ssids, tbody, pending, nextTimerId,
                   dispatched, processed, activations, view, seen, latest, lastMerge>>

\* A timer that stays armed after firing (setInterval instead of setTimeout).
TimerFireRepeats ==
    \E t \in pending :
        /\ dispatched < MaxDispatch
        /\ inflight' = inflight + 1
        /\ dispatched' = dispatched + 1
        /\ lastOp' = "timer"
        /\ prevOp' = lastOp
        /\ UNCHANGED <<setup_wifi_scan_timer, setup_wifi_ssids, tbody, pending, nextTimerId,
                       processed, activations, view, seen, latest, lastMerge>>

\* A pending timer fires and runs setup_wifi_scan (lines 15-38): dispatch.
TimerFire ==
    \E t \in pending :
        /\ dispatched < MaxDispatch
        /\ pending' = pending \ {t}
        /\ setup_wifi_scan
        /\ lastOp' = "timer"
        /\ prevOp' = lastOp
        /\ UNCHANGED <<setup_wifi_scan_timer, setup_wifi_ssids, tbody, nextTimerId,
                       processed, activations, view, seen, latest, lastMerge>>

Next ==
    \/ setup_wifi_on_activate
    \/ setup_wifi_on_deactivate
    \/ \E aps \in Responses : ScanDone(aps)
    \/ ScanFailed
    \/ TimerFire

Spec == Init /\ [][Next]_vars

\* The same program in an environment that answers: a request in flight is
\* eventually answered unless it fails, and a pending timer eventually
\* fires (the browser runs every timer that is not cleared).
FairSpec ==
    /\ Spec
    /\ WF_vars(\E aps \in Responses : ScanDone(aps))
    /\ WF_vars(TimerFire)

\* ------------------------------------------------------------ claims

\* The table holds no key twice.
KeysDistinct(tbl) == Len(tbl) = Cardinality(Keys(tbl))

\* C1: after any sequence of processed responses the table's keys are
\* exactly the SSIDs that occurred in them, and each key maps to the whole
\* record of its most recent occurrence (last write wins, also inside one
\* response).
C1_LastWriteWins ==
    /\ KeysDistinct(setup_wifi_ssids)
    /\ Keys(setup_wifi_ssids) = seen
    /\ \A s \in seen : Lookup(setup_wifi_ssids, s) = latest[s]

\* Three responses processed, the last of which replaced the record of a
\* network already in the table while another network stayed listed.
C1_Witness ==
    /\ processed = 3
    /\ lastOp = "response"
    /\ lastMerge = "overwrote"
    /\ Keys(setup_wifi_ssids) = {"A", "B"}
    /\ Lookup(setup_wifi_ssids, "A").quality = 95

\* C2: once deactivate() has run and until activate() runs again, no step
\* dispatches a scan request.
C2_NoDispatchWhileInactive ==
    [][(view = "inactive" /\ view' = "inactive") => dispatched' = dispatched]_vars

\* C3: in every reachable state at most one poll timer is scheduled and
\* not yet fired.
C3_AtMostOnePendingTimer == Cardinality(pending) <= 1

\* C4: right after deactivate() returns no poll timer is pending.
C4_DeactivateCancelsEveryTimer ==
    [][lastOp' = "deactivate" => pending' = {}]_vars

\* C5: every activate() puts the placeholder into the region and dispatches
\* exactly one scan request in the same step, arming no timer.
C5_ActivateScansAtOnce ==
    [][lastOp' = "activate" =>
          /\ tbody' = Scanning
          /\ dispatched' = dispatched + 1
          /\ inflight' = inflight + 1
          /\ pending' = pending]_vars

\* A re-activation after deactivate(), with rows of an earlier response
\* replaced by the placeholder and a request in flight.
C5_Witness ==
    /\ lastOp = "activate"
    /\ prevOp = "deactivate"
    /\ activations >= 2
    /\ processed >= 1
    /\ tbody = Scanning
    /\ inflight >= 1

\* C6: no step removes an SSID from the table.
C6_TableNeverShrinks ==
    [][Keys(setup_wifi_ssids) \subseteq Keys(setup_wifi_ssids')]_vars

\* deactivate() then activate() with a non-empty table.
C6_Witness ==
    /\ lastOp = "activate"
    /\ prevOp = "deactivate"
    /\ setup_wifi_ssids # <<>>

\* C7: with a single activate() so far, at most one request is in flight, a
\* request in flight and a pending timer never coexist, and every request
\* but the first was dispatched after the previous response was processed.
C7_CyclesDoNotOverlap ==
    activations <= 1 =>
        /\ inflight <= 1
        /\ ~(inflight > 0 /\ pending # {})
        /\ Cardinality(pending) <= 1
        /\ dispatched <= processed + 1

\* The second cycle's request is in flight after a single activate().
C7_Witness ==
    /\ activations = 1
    /\ dispatched >= 2
    /\ processed >= 1
    /\ inflight = 1

\* One row per table entry, carrying its ssid, auth, quality and a button
\* tagged with its ssid.
RowsShowTable(rows, tbl) ==
    /\ Len(rows) = Cardinality(Keys(tbl))
    /\ \A k \in Keys(tbl) :
          /\ Cardinality({i \in DOMAIN rows : rows[i].th = k}) = 1
          /\ \A i \in DOMAIN rows :
                rows[i].th = k =>
                    /\ rows[i].auth = Lookup(tbl, k).auth
                    /\ rows[i].quality = ToString(Lookup(tbl, k).quality)
                    /\ rows[i].button = k

\* C8: the region holds its initial content, the placeholder, or one row
\* per entry of the current table; right after a response it holds the rows.
C8_RegionShowsTable ==
    /\ \/ tbody \in {Untouched, Scanning}
       \/ tbody.kind = "rows" /\ RowsShowTable(tbody.rows, setup_wifi_ssids)
    /\ lastOp = "response" => tbody.kind = "rows"

\* Two networks rendered right after a response.
C8_Witness ==
    /\ lastOp = "response"
    /\ tbody.kind = "rows"
    /\ Len(tbody.rows) = 2
    /\ Len(setup_wifi_ssids) = 2

\* C9: deactivate() leaves the table, the region, the requests in flight
\* and the handle as they are, removes at most the handle's timer, and is a
\* no-op when that timer is not pending.
C9_DeactivateOnlyClearsTimer ==
    [][lastOp' = "deactivate" =>
          /\ setup_wifi_ssids' = setup_wifi_ssids
          /\ tbody' = tbody
          /\ inflight' = inflight
          /\ setup_wifi_scan_timer' = setup_wifi_scan_timer
          /\ nextTimerId' = nextTimerId
          /\ pending' = pending \ {setup_wifi_scan_timer}
          /\ (setup_wifi_scan_timer \notin pending => prog' = prog)]_vars

\* deactivate() ran right after the handle's timer had fired, with the
\* request in flight and rows on display.
C9_Witness ==
    /\ lastOp = "deactivate"
    /\ prevOp = "timer"
    /\ pending = {}
    /\ setup_wifi_scan_timer # Undefined
    /\ inflight = 1
    /\ tbody.kind = "rows"
    /\ setup_wifi_ssids # <<>>

\* C10: a response that leaves the table as it was leaves the rendered
\* rows as they were.
C10_RenderFollowsTable ==
    [][(lastOp' = "response" /\ setup_wifi_ssids' = setup_wifi_ssids /\ tbody.kind = "rows")
          => tbody' = tbody]_vars

\* Two responses in a row, the second changing no entry of a non-empty table.
C10_Witness ==
    /\ lastOp = "response"
    /\ prevOp = "response"
    /\ lastMerge = "same"
    /\ Len(setup_wifi_ssids) = 2

\* C11: a response that arrives while the view is inactive is processed
\* like any other: its records are in the table afterwards, the region
\* shows the table's rows, and a new timer is armed and held by the handle.
C11_StaleResponseProcessed ==
    [][(lastOp' = "response" /\ view = "inactive") =>
          /\ inflight' = inflight - 1
          /\ processed' = processed + 1
          /\ Keys(setup_wifi_ssids') = seen'
          /\ \A s \in seen' : Lookup(setup_wifi_ssids', s) = latest'[s]
          /\ tbody'.kind = "rows"
          /\ RowsShowTable(tbody'.rows, setup_wifi_ssids')
          /\ setup_wifi_scan_timer' \notin pending
          /\ pending' = pending \cup {setup_wifi_scan_timer'}]_vars

\* The first response arrived right after deactivate(): the table is
\* filled, rows are shown and a timer is pending while the view is inactive.
C11_Witness ==
    /\ lastOp = "response"
    /\ prevOp = "deactivate"
    /\ view = "inactive"
    /\ processed = 1
    /\ setup_wifi_ssids # <<>>
    /\ tbody.kind = "rows"
    /\ pending = {setup_wifi_scan_timer}

\* Requests in flight plus timers pending.
LiveChains == inflight + Cardinality(pending)

\* C12: a failed request changes neither the table, the region, the handle
\* nor the pending timers, and with no request in flight and no timer
\* pending only activate() dispatches a request.
C12_FailureStopsChain ==
    [][/\ lastOp' = "fail" =>
              /\ setup_wifi_ssids' = setup_wifi_ssids
              /\ tbody' = tbody
              /\ setup_wifi_scan_timer' = setup_wifi_scan_timer
              /\ pending' = pending
              /\ nextTimerId' = nextTimerId
              /\ inflight' = inflight - 1
       /\ (LiveChains = 0 /\ lastOp' # "activate") => dispatched' = dispatched]_vars

\* The only request of an active view failed after an earlier cycle had
\* filled the table: nothing is in flight and no timer is pending.
C12_Witness ==
    /\ lastOp = "fail"
    /\ prevOp = "timer"
    /\ view = "active"
    /\ LiveChains = 0
    /\ dispatched < MaxDispatch
    /\ tbody.kind = "rows"
    /\ setup_wifi_ssids # <<>>

\* C14: only activate() and a firing timer dispatch a request, only a
\* processed response arms a timer, the live chains never outnumber the
\* activate() calls, and neither a response nor a firing timer adds a chain.
C14_ChainsBoundedByActivations ==
    /\ LiveChains <= activations
    /\ [][/\ dispatched' # dispatched => lastOp' \in {"activate", "timer"}
          /\ ~(pending' \subseteq pending) => lastOp' = "response"
          /\ lastOp' \in {"response", "timer", "fail", "deactivate"}
                => inflight' + Cardinality(pending') <= LiveChains
          /\ inflight' + Cardinality(pending') <= activations']_vars

\* Two activations, two live chains: one timer pending and the request of
\* the other chain's second cycle in flight.
C14_Witness ==
    /\ activations = 2
    /\ LiveChains = 2
    /\ lastOp = "timer"
    /\ inflight = 1
    /\ Cardinality(pending) = 1
    /\ processed = 2

\* C15: every entry is stored under its own record's ssid, no key occurs
\* twice, and the button of each rendered row carries the key of the entry
\* at the same position of the table.
C15_KeyIsOwnSsid ==
    /\ \A i \in DOMAIN setup_wifi_ssids :
          /\ setup_wifi_ssids[i].ap.ssid = setup_wifi_ssids[i].key
          /\ \A j \in DOMAIN setup_wifi_ssids :
                setup_wifi_ssids[j].key = setup_wifi_ssids[i].key => j = i
    /\ tbody.kind = "rows" =>
          /\ DOMAIN tbody.rows = DOMAIN setup_wifi_ssids
          /\ \A i \in DOMAIN tbody.rows : tbody.rows[i].button = setup_wifi_ssids[i].key

\* Both networks listed and rendered after a response replaced a record.
C15_Witness ==
    /\ Len(setup_wifi_ssids) = 2
    /\ lastMerge = "overwrote"
    /\ tbody.kind = "rows"
    /\ Len(tbody.rows) = 2
    /\ view = "active"

\* C16: the table is empty until a response has been processed and only
\* processing a response changes it.
C16_OnlyResponseWritesTable ==
    /\ setup_wifi_ssids = <<>>
    /\ [][/\ setup_wifi_ssids' # setup_wifi_ssids => lastOp' = "response"
          /\ processed' = 0 => setup_wifi_ssids' = <<>>]_vars

\* A failure, after two activations, a firing timer and a deactivate(),
\* with the table of the one processed response still in place.
C16_Witness ==
    /\ lastOp = "fail"
    /\ processed = 1
    /\ activations = 2
    /\ dispatched = 3
    /\ view = "inactive"
    /\ setup_wifi_ssids # <<>>

\* C13: if from some point on the view stays active (activate() was called
\* and deactivate() is not called after it) and no request fails, polling
\* goes on: every processed response is followed by a new dispatch, up to
\* the MaxDispatch requests the model allows.
C13_PollingGoesOn ==
    <>[](view = "active" /\ lastOp # "fail") =>
        /\ <>(dispatched = MaxDispatch)
        /\ \A n \in 0 .. (MaxDispatch - 1) :
              (lastOp = "response" /\ dispatched = n) ~> (dispatched > n)

\* A single activation whose chain polled up to the model's bound.
C13_Witness ==
    /\ activations = 1
    /\ view = "active"
    /\ dispatched = MaxDispatch
    /\ processed = MaxDispatch - 1
    /\ lastOp = "timer"

====
